---- MODULE Spec2Model ----
(***************************************************************************)
(* Model of src/src/refdb.cpp (referral::ReferralsViewDB): the referral    *)
(* tree store, the ANV aggregator and the lottery reservoir, each kept as  *)
(* typed entries of one key-value store (m_db).                            *)
(*                                                                         *)
(* An optional value (MaybeReferral, MaybeAddress, MaybeAddressANV, and a  *)
(* key that m_db.Read may miss) is a sequence of length 0 or 1.            *)
(***************************************************************************)
EXTENDS Integers, Sequences, FiniteSets, Bags, TLC

\* ---------------------------------------------------------------- bounds
\* largest ANV amount, and largest running total of one start address
MaxAmount == 2
\* InsertReferral / RemoveReferral calls of a run of SpecTree
MaxTreeCalls == 4
\* InsertReferral / RemoveReferral calls of a run of Spec, when one of them
\* follows an UpdateANV
MaxMixedCalls == 1
\* MAX_RESERVOIR_SIZE is 1000 in the source (line 26); the reservoir is
\* checked at a capacity that the runs fill, and at which an entry sifts
\* over two levels (slot 4 to slot 1 to slot 0).
MAX_RESERVOIR_SIZE == 5
\* stands for UINT64_MAX, the largest value of rand_value.GetUint64(0)
MaxRand == 4
\* candidates with an ANV record offered in a run of SpecReservoir
MaxOffers == 2

\* ------------------------------------------------------------- universes
\* Code hashes that referrals are stored under; GenesisHash is a value of
\* previousReferral that names no referral ever stored.
Hashes == {1, 2, 3}
GenesisHash == 0
\* Address{} (the default-constructed, all-zero address) and the others.
NullAddress == 0
KeyIds == {1, 2, 3}
Addresses == {NullAddress} \cup KeyIds

\* InsertReferral / RemoveReferral calls of a run of Spec before its first
\* UpdateANV: one per code hash builds every forest over them.
MaxForestCalls == Cardinality(Hashes)

\* A code hash is issued for one key: the referral stored under code hash h
\* is the referral of address h.  Its inviter is any code hash.
Referrals ==
    {r \in [codeHash : Hashes, pubKeyId : KeyIds,
            previousReferral : Hashes \cup {GenesisHash}] : r.pubKeyId = r.codeHash}

\* Address types UpdateANV is called with, and the changes it is given.
AddressTypes == {1}
Changes == {-1, 1}
\* Address types of SpecStamp: the two that GetAllRewardableANVs keeps
\* (lines 233-237) and one that it drops.
StampTypes == {1, 2, 3}
Credits == {v \in Changes : v > 0}

\* The callers that run InsertReferral one store access at a time, each
\* named by the address it inserts, and the addresses left to invite them.
Callers == {2, 3}
Inviters == KeyIds \ Callers

\* Weighted keys InsertLotteryAddress is called with, and the 64-bit draws
\* AddAddressToLottery is called with (neither 0 nor UINT64_MAX).
Keys == {-3, -2, -1}
Seeds == {1, 2}

VARIABLES
    referrals,   \* DB_REFERRALS  : code hash -> optional Referral
    parentKey,   \* DB_PARENT_KEY : address   -> optional Address
    childrenOf,  \* DB_CHILDREN   : address   -> ChildAddresses (a missing key reads as empty)
    anv,         \* DB_ANV        : address   -> optional ANVTuple
    lotSize,     \* DB_LOT_SIZE   : the size counter (a missing key reads as 0)
    lotVal,      \* DB_LOT_VAL    : position  -> LotteryHeapValue, defined on the slots written
    aborted,     \* "none", or the assertion that terminated the process
    calls,       \* caller -> the InsertReferral call it runs one store access at
                 \* a time: where it stands, its argument and its locals
    \* history of the calls made, read only by the properties
    structCalls, \* number of InsertReferral / RemoveReferral calls made
    credited,    \* start address -> running total of the changes passed to UpdateANV
    overdrawn,   \* some running total has been below 0
    fixedForest, \* no InsertReferral / RemoveReferral has followed an UpdateANV
    inserted,    \* the call just made, if it was an InsertReferral that returned
                 \* true: its referral and the three indices before it
    offered,     \* weighted keys of the candidates AddAddressToLottery accepted
    returned,    \* the return value of the call just made, "true" or "false"
                 \* ("none" before the first call and after a call that ended
                 \* in an assertion)
    accepted,    \* bag of the (key, address) entries passed to the
                 \* InsertLotteryAddress calls that returned true
    started      \* the addresses UpdateANV has been called with as start address

store == <<referrals, parentKey, childrenOf, anv, lotSize, lotVal, aborted>>
history == <<structCalls, credited, overdrawn, fixedForest, inserted, offered,
             returned, accepted, started>>
vars == <<store, history, calls>>

\* ------------------------------------------------------------ the store
\* failAt = NoFail when every m_db.Write / m_db.Erase of a call succeeds,
\* k > 0 when the k-th one of the call fails.
NoFail == 0

RemoveAll(seq, x) == SelectSeq(seq, LAMBDA y : y # x)

\* ------------------------------------------------------ referral tree store
GetReferral(refs, code_hash) == refs[code_hash]

\* GetReferrer with the fault of never finding the parent entry
GetReferrer_Miss(pk, address) == <<>>

GetReferrer(pk, address) == pk[address]

GetChildren(ch, address) == ch[address]

ReferralCodeExists(refs, code_hash) == refs[code_hash] # <<>>

WalletIdExists(pk, address) == pk[address] # <<>>

\* ResolveParent with the fault of never resolving the inviter
ResolveParent_Unresolved(refs, previousReferral) == NullAddress

\* parent_address as both InsertReferral and RemoveReferral compute it:
\* Address{} unless GetReferral(referral.previousReferral) finds a referral.
ResolveParent(refs, previousReferral) ==
    IF previousReferral \in Hashes /\ GetReferral(refs, previousReferral) # <<>>
    THEN GetReferral(refs, previousReferral)[1].pubKeyId
    ELSE NullAddress

\* InsertReferralResult with the fault of writing the children list before
\* the parent entry
InsertReferralResult_ChildrenFirst(refs, pk, ch, referral, failAt) ==
    IF failAt = 1 THEN [refs |-> refs, pk |-> pk, ch |-> ch, ret |-> FALSE]
    ELSE
      LET refs1 == [refs EXCEPT ![referral.codeHash] = <<referral>>]
          parent_address == ResolveParent(refs1, referral.previousReferral)
          children == Append(GetChildren(ch, parent_address), referral.pubKeyId)
          ch1 == [ch EXCEPT ![parent_address] = children]
      IN  IF failAt = 2 THEN [refs |-> refs1, pk |-> pk, ch |-> ch, ret |-> FALSE]
          ELSE IF failAt = 3 THEN [refs |-> refs1, pk |-> pk, ch |-> ch1, ret |-> FALSE]
          ELSE [refs |-> refs1, pk |-> [pk EXCEPT ![referral.pubKeyId] = <<parent_address>>],
                ch |-> ch1, ret |-> TRUE]

\* The m_db.Write calls of one InsertReferral: lines 56, 66 and 75.
InsertWrites == 3

\* The store after InsertReferral(referral), and its return value.
InsertReferralResult(refs, pk, ch, referral, failAt) ==
    IF failAt = 1 THEN [refs |-> refs, pk |-> pk, ch |-> ch, ret |-> FALSE]
    ELSE
      LET refs1 == [refs EXCEPT ![referral.codeHash] = <<referral>>]
          parent_address == ResolveParent(refs1, referral.previousReferral)
      IN  IF failAt = 2 THEN [refs |-> refs1, pk |-> pk, ch |-> ch, ret |-> FALSE]
          ELSE
            LET pk1 == [pk EXCEPT ![referral.pubKeyId] = <<parent_address>>]
                children == Append(GetChildren(ch, parent_address), referral.pubKeyId)
            IN  IF failAt = 3 THEN [refs |-> refs1, pk |-> pk1, ch |-> ch, ret |-> FALSE]
                ELSE [refs |-> refs1, pk |-> pk1,
                      ch |-> [ch EXCEPT ![parent_address] = children], ret |-> TRUE]

\* The store after RemoveReferral(referral), and its return value.
RemoveReferralResult(refs, pk, ch, referral, failAt) ==
    IF failAt = 1 THEN [refs |-> refs, pk |-> pk, ch |-> ch, ret |-> FALSE]
    ELSE
      LET refs1 == [refs EXCEPT ![referral.codeHash] = <<>>]
          parent_address == ResolveParent(refs1, referral.previousReferral)
      IN  IF failAt = 2 THEN [refs |-> refs1, pk |-> pk, ch |-> ch, ret |-> FALSE]
          ELSE
            LET pk1 == [pk EXCEPT ![referral.pubKeyId] = <<>>]
                children == RemoveAll(GetChildren(ch, parent_address), referral.pubKeyId)
            IN  IF failAt = 3 THEN [refs |-> refs1, pk |-> pk1, ch |-> ch, ret |-> FALSE]
                ELSE [refs |-> refs1, pk |-> pk1,
                      ch |-> [ch EXCEPT ![parent_address] = children], ret |-> TRUE]

\* ------------------------------------------------------------ ANV aggregator
\* DefaultANV with the fault of an amount that is not zero-initialised
DefaultANV_Uninitialised == [type |-> 0, origin |-> NullAddress, amount |-> -1]

\* A value-initialised ANVTuple: what UpdateANV works on when m_db.Read misses.
DefaultANV == [type |-> 0, origin |-> NullAddress, amount |-> 0]

\* ReadANV with the fault of ignoring the stored record
ReadANV_Unread(a, address) == DefaultANV

ReadANV(a, address) == IF a[address] = <<>> THEN DefaultANV ELSE a[address][1]

GetANV(a, address) == a[address]

\* GetANV(address).amount, 0 for an address without a record
Amount(a, address) == IF GetANV(a, address) = <<>> THEN 0 ELSE GetANV(a, address)[1].amount

\* MAX_LEVELS is SIZE_MAX in the source: no walk over distinct addresses gets
\* there, and a walk that revisits an address never leaves its cycle, so it
\* ends only by reaching MAX_LEVELS.  Any value above the number of addresses
\* separates the two in the same way.
MAX_LEVELS == Cardinality(Addresses) + 1

\* UpdateANVLoop with the fault of stamping type and origin at every level
RECURSIVE UpdateANVLoop_StampAll(_, _, _, _, _, _, _, _)
UpdateANVLoop_StampAll(a, pk, address, levels, addressType, start_address, change, failAt) ==
    IF ~(address # <<>> /\ levels < MAX_LEVELS)
    THEN [anv |-> a, out |-> IF levels < MAX_LEVELS THEN "true" ELSE "assert_levels"]
    ELSE
      LET read == ReadANV(a, address[1])
          stamped == [read EXCEPT !.type = addressType, !.origin = start_address]
          written == [stamped EXCEPT !.amount = @ + change]
      IN  IF ~(written.amount >= 0) THEN [anv |-> a, out |-> "assert_amount"]
          ELSE IF failAt = levels + 1 THEN [anv |-> a, out |-> "false"]
          ELSE UpdateANVLoop_StampAll([a EXCEPT ![address[1]] = <<written>>], pk,
                                      GetReferrer(pk, address[1]), levels + 1,
                                      addressType, start_address, change, failAt)

\* UpdateANVLoop with the fault of walking on after a write has failed
RECURSIVE UpdateANVLoop_WalkOn(_, _, _, _, _, _, _, _)
UpdateANVLoop_WalkOn(a, pk, address, levels, addressType, start_address, change, failAt) ==
    IF ~(address # <<>> /\ levels < MAX_LEVELS)
    THEN [anv |-> a, out |-> IF levels >= MAX_LEVELS THEN "assert_levels"
                             ELSE IF failAt \in 1..levels THEN "false" ELSE "true"]
    ELSE
      LET read == ReadANV(a, address[1])
          stamped == IF levels = 0
                     THEN [read EXCEPT !.type = addressType, !.origin = start_address]
                     ELSE read
          written == [stamped EXCEPT !.amount = @ + change]
      IN  IF ~(written.amount >= 0) THEN [anv |-> a, out |-> "assert_amount"]
          ELSE UpdateANVLoop_WalkOn(
                   IF failAt = levels + 1 THEN a ELSE [a EXCEPT ![address[1]] = <<written>>],
                   pk, GetReferrer(pk, address[1]), levels + 1,
                   addressType, start_address, change, failAt)

\* The while loop of UpdateANV from `address` at `levels`.  out is "true" or
\* "false" (the return value), "assert_amount" (line 143) or "assert_levels"
\* (line 158).
RECURSIVE UpdateANVLoop(_, _, _, _, _, _, _, _)
UpdateANVLoop(a, pk, address, levels, addressType, start_address, change, failAt) ==
    IF ~(address # <<>> /\ levels < MAX_LEVELS)
    THEN [anv |-> a, out |-> IF levels < MAX_LEVELS THEN "true" ELSE "assert_levels"]
    ELSE
      LET read == ReadANV(a, address[1])
          stamped == IF levels = 0
                     THEN [read EXCEPT !.type = addressType, !.origin = start_address]
                     ELSE read
          written == [stamped EXCEPT !.amount = @ + change]
      IN  IF ~(written.amount >= 0) THEN [anv |-> a, out |-> "assert_amount"]
          ELSE IF failAt = levels + 1 THEN [anv |-> a, out |-> "false"]
          ELSE UpdateANVLoop([a EXCEPT ![address[1]] = <<written>>], pk,
                             GetReferrer(pk, address[1]), levels + 1,
                             addressType, start_address, change, failAt)

UpdateANVResult(a, pk, addressType, start_address, change, failAt) ==
    UpdateANVLoop(a, pk, <<start_address>>, 0, addressType, start_address, change, failAt)

\* The addresses in the order the iterator of m_db meets their DB_ANV keys.
AddressOrder ==
    [i \in 1..Cardinality(Addresses) |->
        CHOOSE x \in Addresses : Cardinality({y \in Addresses : y < x}) = i - 1]

\* The (type, origin, amount) of every DB_ANV entry, in key order; the key
\* itself is not part of what is returned.
GetAllANVs(a) ==
    LET keys == SelectSeq(AddressOrder, LAMBDA x : a[x] # <<>>)
    IN  [i \in DOMAIN keys |-> a[keys[i]][1]]

\* GetAllRewardableANVs with the fault of not filtering by address type
GetAllRewardableANVs_Unfiltered(a) == GetAllANVs(a)

\* The same scan, skipping the entries whose type is neither 1 nor 2.
GetAllRewardableANVs(a) ==
    SelectSeq(GetAllANVs(a), LAMBDA entry : ~(entry.type # 1 /\ entry.type # 2))

\* The assertions a walk caught in a cycle can end in.  With change = 0 only
\* levels grows; with change < 0 an amount falls below 0 first; with
\* change > 0 the amount (a signed 64-bit integer) overflows long before
\* levels reaches MAX_LEVELS, which is undefined behaviour: either assertion
\* may be the one that fails.
CycleOutcomes(change) ==
    IF change = 0 THEN {"assert_levels"}
    ELSE IF change < 0 THEN {"assert_amount"}
    ELSE {"assert_amount", "assert_levels"}

\* --------------------------------------------------------- lottery reservoir
GetLotteryHeapSize(size) == size

\* The slot that a key (DB_LOT_VAL, position) names.  How the store encodes
\* a key is not part of refdb.cpp; the persisted layout keys a heap slot by
\* its position, so the int literal 0 that GetLotteryMinKey reads with names
\* the slot that InsertLotteryAddress writes with the size_t position 0.
LotValKey(position) == position

GetLotteryMinKey(lv) ==
    IF LotValKey(0) \in DOMAIN lv THEN <<lv[LotValKey(0)].key>> ELSE <<>>

\* floor(log2(u)), u >= 1: the logarithm the weighted key is computed from
RECURSIVE Log(_)
Log(u) == IF u <= 1 THEN 0 ELSE 1 + Log(u \div 2)

LOG_MAX_UINT64 == Log(MaxRand)

\* A weighted key is kept in units of 1 / KeyScale, so that the division by
\* an amount is exact;
\* MinusInfinity is what the division of a negative number by an ANV of 0
\* gives.
RECURSIVE Factorial(_)
Factorial(n) == IF n <= 1 THEN 1 ELSE n * Factorial(n - 1)

KeyScale == Factorial(MaxAmount + 1)
MinusInfinity == 0 - (KeyScale * LOG_MAX_UINT64 + 1)

\* weighted_key = (log(rand_uint64) - LOG_MAX_UINT64) / anv
WeightedKey(rand_uint64, anv_f) ==
    LET rand == Log(rand_uint64) - LOG_MAX_UINT64
    IN  IF anv_f = 0 THEN MinusInfinity ELSE (rand * KeyScale) \div anv_f

\* parent_pos = pos % 2 == 0 ? pos >> 2 : (pos - 1) >> 2
ParentPos(pos) == IF pos % 2 = 0 THEN pos \div 4 ELSE (pos - 1) \div 4

\* SiftUp with the fault of moving up without pushing the parent down
RECURSIVE SiftUp_NoPush(_, _, _, _, _, _)
SiftUp_NoPush(lv, pos, key, address, writes, failAt) ==
    LET final == IF failAt = writes + 1 THEN [lv |-> lv, ret |-> FALSE]
                 ELSE [lv |-> (pos :> [key |-> key, address |-> address]) @@ lv,
                       ret |-> TRUE]
    IN  IF pos = 0 THEN final
        ELSE LET parent_pos == ParentPos(pos)
             IN  IF parent_pos \notin DOMAIN lv THEN [lv |-> lv, ret |-> FALSE]
                 ELSE IF key > lv[parent_pos].key THEN final
                 ELSE SiftUp_NoPush(lv, parent_pos, key, address, writes, failAt)

\* SiftUp with the fault of an inverted comparison with the parent's key
RECURSIVE SiftUp_Inverted(_, _, _, _, _, _)
SiftUp_Inverted(lv, pos, key, address, writes, failAt) ==
    LET final == IF failAt = writes + 1 THEN [lv |-> lv, ret |-> FALSE]
                 ELSE [lv |-> (pos :> [key |-> key, address |-> address]) @@ lv,
                       ret |-> TRUE]
    IN  IF pos = 0 THEN final
        ELSE LET parent_pos == ParentPos(pos)
             IN  IF parent_pos \notin DOMAIN lv THEN [lv |-> lv, ret |-> FALSE]
                 ELSE IF key < lv[parent_pos].key THEN final
                 ELSE IF failAt = writes + 1 THEN [lv |-> lv, ret |-> FALSE]
                 ELSE SiftUp_Inverted((pos :> lv[parent_pos]) @@ lv, parent_pos, key,
                                      address, writes + 1, failAt)

\* The while loop of InsertLotteryAddress and the final write, after `writes`
\* writes of the call have succeeded.
RECURSIVE SiftUp(_, _, _, _, _, _)
SiftUp(lv, pos, key, address, writes, failAt) ==
    LET final == IF failAt = writes + 1 THEN [lv |-> lv, ret |-> FALSE]
                 ELSE [lv |-> (pos :> [key |-> key, address |-> address]) @@ lv,
                       ret |-> TRUE]
    IN  IF pos = 0 THEN final
        ELSE LET parent_pos == ParentPos(pos)
             IN  IF parent_pos \notin DOMAIN lv THEN [lv |-> lv, ret |-> FALSE]
                 ELSE IF key > lv[parent_pos].key THEN final
                 ELSE IF failAt = writes + 1 THEN [lv |-> lv, ret |-> FALSE]
                 ELSE SiftUp((pos :> lv[parent_pos]) @@ lv, parent_pos, key, address,
                             writes + 1, failAt)

\* InsertLotteryAddressResult with the fault of not checking the capacity
InsertLotteryAddressResult_Uncapped(size, lv, key, address, failAt) ==
    LET pos == GetLotteryHeapSize(size)
    IN  IF failAt = 1 THEN [size |-> size, lv |-> lv, ret |-> FALSE]
        ELSE LET sifted == SiftUp(lv, pos, key, address, 1, failAt)
             IN  [size |-> pos + 1, lv |-> sifted.lv, ret |-> sifted.ret]

\* The store after InsertLotteryAddress(key, address), and its return value.
InsertLotteryAddressResult(size, lv, key, address, failAt) ==
    LET pos == GetLotteryHeapSize(size)
    IN  IF pos >= MAX_RESERVOIR_SIZE THEN [size |-> size, lv |-> lv, ret |-> FALSE]
        ELSE IF failAt = 1 THEN [size |-> size, lv |-> lv, ret |-> FALSE]
        ELSE LET sifted == SiftUp(lv, pos, key, address, 1, failAt)
             IN  [size |-> pos + 1, lv |-> sifted.lv, ret |-> sifted.ret]

\* ----------------------------------- InsertReferral, one store access a step
\* A caller outside a call: parent_address is default-constructed (line 62),
\* children is empty (line 71).
IdleCall ==
    [pc |-> "idle", referral |-> <<>>, parent_address |-> NullAddress,
     children |-> <<>>, ret |-> "none"]

\* ChildrenToWrite with the fault of appending to the list as stored now
ChildrenToWrite_Reread(ch, call) ==
    Append(GetChildren(ch, call.parent_address), call.referral[1].pubKeyId)

\* children.push_back(referral.pubKeyId): the list the call writes at line 75
\* is the one it read at line 72, whatever the store holds by now.
ChildrenToWrite(ch, call) == Append(call.children, call.referral[1].pubKeyId)

\* ---------------------------------------------------------------- actions
Init ==
    /\ referrals = [h \in Hashes |-> <<>>]
    /\ parentKey = [a \in Addresses |-> <<>>]
    /\ childrenOf = [a \in Addresses |-> <<>>]
    /\ anv = [a \in Addresses |-> <<>>]
    /\ lotSize = 0
    /\ lotVal = <<>>
    /\ aborted = "none"
    /\ calls = [p \in Callers |-> IdleCall]
    /\ structCalls = 0
    /\ credited = [a \in Addresses |-> 0]
    /\ overdrawn = FALSE
    /\ fixedForest = TRUE
    /\ inserted = <<>>
    /\ offered = <<>>
    /\ returned = "none"
    /\ accepted = EmptyBag
    /\ started = {}

\* a bool return value, as `returned` keeps it
BoolStr(b) == IF b THEN "true" ELSE "false"

AnvStarted == \E a \in Addresses : anv[a] # <<>>

StructuralCall ==
    /\ structCalls' = structCalls + 1
    /\ fixedForest' = (fixedForest /\ ~AnvStarted)
    /\ UNCHANGED <<credited, overdrawn, offered, accepted, started>>

InsertReferral(referral, failAt) ==
    LET res == InsertReferralResult(referrals, parentKey, childrenOf, referral, failAt)
    IN  /\ aborted = "none"
        /\ referrals' = res.refs
        /\ parentKey' = res.pk
        /\ childrenOf' = res.ch
        /\ inserted' = IF res.ret
                       THEN <<[referral |-> referral, refs |-> referrals,
                               pk |-> parentKey, ch |-> childrenOf]>>
                       ELSE <<>>
        /\ returned' = BoolStr(res.ret)
        /\ StructuralCall
        /\ UNCHANGED <<anv, lotSize, lotVal, aborted, calls>>

RemoveReferral(referral, failAt) ==
    LET res == RemoveReferralResult(referrals, parentKey, childrenOf, referral, failAt)
    IN  /\ aborted = "none"
        /\ referrals' = res.refs
        /\ parentKey' = res.pk
        /\ childrenOf' = res.ch
        /\ inserted' = <<>>
        /\ returned' = BoolStr(res.ret)
        /\ StructuralCall
        /\ UNCHANGED <<anv, lotSize, lotVal, aborted, calls>>

\* A call that ends in an assertion ends the process: no call follows it, and
\* the ANV records are kept as they were before the call.
UpdateANV(addressType, start_address, change, failAt) ==
    LET res == UpdateANVResult(anv, parentKey, addressType, start_address, change, failAt)
        total == credited[start_address] + change
    IN  /\ aborted = "none"
        /\ total \in (0 - MaxAmount)..MaxAmount
        /\ \/ /\ res.out \in {"true", "false"}
              /\ \A a \in Addresses : Amount(res.anv, a) <= MaxAmount
              /\ anv' = res.anv
              /\ aborted' = "none"
              /\ returned' = res.out
           \/ /\ res.out = "assert_amount"
              /\ anv' = anv
              /\ aborted' = "assert_amount"
              /\ returned' = "none"
           \/ /\ res.out = "assert_levels"
              /\ anv' = anv
              /\ aborted' \in CycleOutcomes(change)
              /\ returned' = "none"
        /\ started' = started \cup {start_address}
        /\ credited' = [credited EXCEPT ![start_address] = total]
        /\ overdrawn' = (overdrawn \/ total < 0)
        /\ inserted' = <<>>
        /\ UNCHANGED <<referrals, parentKey, childrenOf, lotSize, lotVal, calls>>
        /\ UNCHANGED <<structCalls, fixedForest, offered, accepted>>

\* The weighted key is computed and the heap size is read; the admission
\* itself is the TODO of lines 294-301, and nothing is written.
AddAddressToLottery(rand_value, address) ==
    LET maybe_anv == GetANV(anv, address)
    IN  /\ aborted = "none"
        /\ Len(offered) <= MAX_RESERVOIR_SIZE
        /\ offered' = IF maybe_anv = <<>> THEN offered
                      ELSE Append(offered, WeightedKey(rand_value, maybe_anv[1].amount))
        /\ returned' = BoolStr(maybe_anv # <<>>)
        /\ inserted' = <<>>
        /\ UNCHANGED <<store, calls>>
        /\ UNCHANGED <<structCalls, credited, overdrawn, fixedForest, accepted, started>>

InsertLotteryAddress(key, address, failAt) ==
    LET res == InsertLotteryAddressResult(lotSize, lotVal, key, address, failAt)
    IN  /\ aborted = "none"
        /\ lotSize' = res.size
        /\ lotVal' = res.lv
        /\ returned' = BoolStr(res.ret)
        /\ accepted' = IF res.ret
                       THEN accepted (+) SetToBag({[key |-> key, address |-> address]})
                       ELSE accepted
        /\ inserted' = <<>>
        /\ UNCHANGED <<referrals, parentKey, childrenOf, anv, aborted, calls>>
        /\ UNCHANGED <<structCalls, credited, overdrawn, fixedForest, offered, started>>

\* The steps of an InsertReferral(referral) run by caller p, every write
\* succeeding.  Line 56: the call starts by writing the referral record.
WriteReferralStep(p, referral) ==
    /\ aborted = "none"
    /\ calls[p].pc = "idle"
    /\ referrals' = [referrals EXCEPT ![referral.codeHash] = <<referral>>]
    /\ calls' = [calls EXCEPT ![p] = [@ EXCEPT !.pc = "get_referral",
                                               !.referral = <<referral>>]]
    /\ inserted' = <<>>
    /\ UNCHANGED <<parentKey, childrenOf, anv, lotSize, lotVal, aborted>>
    /\ UNCHANGED <<structCalls, credited, overdrawn, fixedForest, offered,
                   returned, accepted, started>>

\* Line 63: GetReferral(referral.previousReferral) sets parent_address.
GetReferralStep(p) ==
    /\ calls[p].pc = "get_referral"
    /\ calls' = [calls EXCEPT ![p] =
                    [@ EXCEPT !.pc = "write_parent",
                              !.parent_address =
                                  ResolveParent(referrals,
                                                calls[p].referral[1].previousReferral)]]
    /\ UNCHANGED <<store, history>>

\* Line 66: the parent entry is written.
WriteParentStep(p) ==
    /\ calls[p].pc = "write_parent"
    /\ parentKey' = [parentKey EXCEPT ![calls[p].referral[1].pubKeyId] =
                                          <<calls[p].parent_address>>]
    /\ calls' = [calls EXCEPT ![p] = [@ EXCEPT !.pc = "read_children"]]
    /\ UNCHANGED <<referrals, childrenOf, anv, lotSize, lotVal, aborted, history>>

\* Line 72: the children list of parent_address is read.
ReadChildrenStep(p) ==
    /\ calls[p].pc = "read_children"
    /\ calls' = [calls EXCEPT ![p] =
                    [@ EXCEPT !.pc = "write_children",
                              !.children = GetChildren(childrenOf,
                                                      calls[p].parent_address)]]
    /\ UNCHANGED <<store, history>>

\* Lines 74-78: the list is written with the address appended; the call
\* returns true.
WriteChildrenStep(p) ==
    /\ calls[p].pc = "write_children"
    /\ childrenOf' = [childrenOf EXCEPT ![calls[p].parent_address] =
                                            ChildrenToWrite(childrenOf, calls[p])]
    /\ calls' = [calls EXCEPT ![p] = [@ EXCEPT !.pc = "done", !.ret = "true"]]
    /\ returned' = "true"
    /\ inserted' = <<>>
    /\ StructuralCall
    /\ UNCHANGED <<referrals, parentKey, anv, lotSize, lotVal, aborted>>

\* RemoveReferral is called with referrals that are stored.
StoredReferrals == {r \in Referrals : referrals[r.codeHash] = <<r>>}

\* ---------------------------------------------------------- specifications
\* The chain root -> A -> B: 1 is the root, 2 its invitee, 3 the invitee of 2.
ChainReferrals ==
    [h \in Hashes |-> <<[codeHash |-> h, pubKeyId |-> h, previousReferral |-> h - 1]>>]

\* The referral tree store alone.
NextTree ==
    \/ \E r \in Referrals : structCalls < MaxTreeCalls /\ InsertReferral(r, NoFail)
    \/ \E r \in StoredReferrals : structCalls < MaxTreeCalls /\ RemoveReferral(r, NoFail)

SpecTree == Init /\ [][NextTree]_vars

\* The referral tree store and the ANV aggregator.
ForestCalls == IF AnvStarted THEN MaxMixedCalls ELSE MaxForestCalls

Next ==
    \/ \E r \in Referrals : structCalls < ForestCalls /\ InsertReferral(r, NoFail)
    \/ \E r \in StoredReferrals : structCalls < ForestCalls /\ RemoveReferral(r, NoFail)
    \/ \E t \in AddressTypes, a \in KeyIds, v \in Changes : UpdateANV(t, a, v, NoFail)

Spec == Init /\ [][Next]_vars

\* The lottery heap alone.
NextHeap == \E k \in Keys, a \in KeyIds : InsertLotteryAddress(k, a, NoFail)

SpecHeap == Init /\ [][NextHeap]_vars

\* Candidates offered to the reservoir, over addresses without referrals.
NextLottery ==
    \/ \E t \in AddressTypes, a \in KeyIds, v \in Changes : UpdateANV(t, a, v, NoFail)
    \/ \E u \in Seeds, a \in KeyIds : AddAddressToLottery(u, a)

SpecLottery == Init /\ [][NextLottery]_vars

\* The reservoir under both of its operations: entries inserted into the
\* heap, and one candidate, credited step by step, offered to the lottery.
Candidates == {1}

NextReservoir ==
    \/ \E k \in Keys, a \in Candidates : InsertLotteryAddress(k, a, NoFail)
    \/ \E t \in AddressTypes, a \in Candidates, v \in Credits : UpdateANV(t, a, v, NoFail)
    \/ \E u \in Seeds, a \in Candidates :
          Len(offered) < MaxOffers /\ AddAddressToLottery(u, a)

SpecReservoir == Init /\ [][NextReservoir]_vars

\* The referral tree store when a write of InsertReferral may fail.
NextTreeFail ==
    \/ \E r \in Referrals, k \in NoFail..InsertWrites :
          structCalls < MaxForestCalls /\ InsertReferral(r, k)
    \/ \E r \in StoredReferrals : structCalls < MaxForestCalls /\ RemoveReferral(r, NoFail)

SpecTreeFail == Init /\ [][NextTreeFail]_vars

\* The ANV aggregator when a write of UpdateANV may fail, over the referrals
\* of the chain, written beforehand and in order (the inviter is found, the
\* comment of lines 59-61).  A walk visits every address at most once, or
\* never ends.  The changes are credits: a write fails in the same
\* way whatever the sign of the change.
NextANVFail ==
    \/ \E r \in Referrals :
          /\ ChainReferrals[r.codeHash] = <<r>>
          /\ IF r.previousReferral = GenesisHash THEN TRUE
             ELSE ReferralCodeExists(referrals, r.previousReferral)
          /\ started = {} /\ structCalls < MaxForestCalls
          /\ InsertReferral(r, NoFail)
    \/ \E t \in AddressTypes, a \in KeyIds, v \in Credits,
            k \in NoFail..Cardinality(Addresses) : UpdateANV(t, a, v, k)

SpecANVFail == Init /\ [][NextANVFail]_vars

\* The ANV aggregator called with several address types, over the referrals
\* of the chain, written beforehand and in order.
NextStamp ==
    \/ \E r \in Referrals :
          /\ ChainReferrals[r.codeHash] = <<r>>
          /\ IF r.previousReferral = GenesisHash THEN TRUE
             ELSE ReferralCodeExists(referrals, r.previousReferral)
          /\ started = {} /\ structCalls < MaxForestCalls
          /\ InsertReferral(r, NoFail)
    \/ \E t \in StampTypes, a \in KeyIds, v \in Changes : UpdateANV(t, a, v, NoFail)

SpecStamp == Init /\ [][NextStamp]_vars

\* Two callers, each making one InsertReferral call for its own address, the
\* store accesses of the two calls in any order; an inviter may be inserted
\* before they start.
NoCallStarted == \A p \in Callers : calls[p].pc = "idle"

NextInterleaved ==
    \/ \E r \in Referrals :
          /\ r.pubKeyId \in Inviters /\ NoCallStarted /\ structCalls < Cardinality(Inviters)
          /\ InsertReferral(r, NoFail)
    \/ \E p \in Callers, r \in Referrals : r.pubKeyId = p /\ WriteReferralStep(p, r)
    \/ \E p \in Callers : GetReferralStep(p)
    \/ \E p \in Callers : WriteParentStep(p)
    \/ \E p \in Callers : ReadChildrenStep(p)
    \/ \E p \in Callers : WriteChildrenStep(p)

SpecInterleaved == Init /\ [][NextInterleaved]_vars

\* ------------------------------------------------------------- properties
\* The addresses reached from a by repeatedly applying GetReferrer, a included.
RECURSIVE ChainFrom(_, _, _)
ChainFrom(pk, a, seen) ==
    IF a \in seen THEN seen
    ELSE IF pk[a] = <<>> THEN seen \cup {a}
    ELSE ChainFrom(pk, pk[a][1], seen \cup {a})

\* Following the parent index from a comes back to an address already visited.
RECURSIVE Revisits(_, _, _)
Revisits(pk, a, seen) ==
    IF a \in seen THEN TRUE
    ELSE IF pk[a] = <<>> THEN FALSE
    ELSE Revisits(pk, pk[a][1], seen \cup {a})

Acyclic(pk) == \A a \in Addresses : ~Revisits(pk, a, {})

RECURSIVE SumCredited(_, _)
SumCredited(c, S) ==
    IF S = {} THEN 0
    ELSE LET d == CHOOSE d \in S : TRUE IN c[d] + SumCredited(c, S \ {d})

\* x itself and the transitive invitees of x
SubtreeOf(pk, x) == {d \in Addresses : x \in ChainFrom(pk, d, {})}

ChainParents ==
    /\ parentKey[1] = <<NullAddress>>
    /\ parentKey[2] = <<1>>
    /\ parentKey[3] = <<2>>

\* C1: a successful UpdateANV(type, a, v) adds exactly v to the amount of a
\* and of every address reached from a by repeatedly applying GetReferrer,
\* and leaves every other ANV record unchanged; on the chain root -> A -> B,
\* a change credited to B and an equal one credited to A end with B holding
\* one of them and A and root both.
C1_ANVPropagation ==
    /\ [][\A t \in AddressTypes, a \in KeyIds, v \in Changes :
            (/\ credited' = [credited EXCEPT ![a] = @ + v]
             /\ UpdateANV(t, a, v, NoFail)
             /\ aborted' = "none") =>
                \A x \in Addresses :
                    IF x \in ChainFrom(parentKey, a, {})
                    THEN Amount(anv', x) = Amount(anv, x) + v
                    ELSE anv'[x] = anv[x]]_vars
    /\ []((/\ fixedForest /\ aborted = "none" /\ ChainParents
           /\ credited[3] = 1 /\ credited[2] = 1 /\ credited[1] = 0)
          => (Amount(anv, 3) = 1 /\ Amount(anv, 2) = 2 /\ Amount(anv, 1) = 2))

C1_Witness ==
    /\ fixedForest /\ aborted = "none" /\ ChainParents
    /\ credited[3] = 1 /\ credited[2] = 1 /\ credited[1] = 0
    /\ Amount(anv, 3) = 1 /\ Amount(anv, 2) = 2 /\ Amount(anv, 1) = 2
    /\ Amount(anv, NullAddress) = 2

C9_SubtreeAggregate ==
    (fixedForest /\ aborted = "none") =>
        \A x \in Addresses :
            Amount(anv, x) = SumCredited(credited, SubtreeOf(parentKey, x))

C9_Witness ==
    /\ fixedForest /\ aborted = "none" /\ ChainParents
    /\ credited[3] = 1 /\ credited[2] = -1 /\ credited[1] = 1
    /\ Amount(anv, 1) = 1 /\ Amount(anv, 2) = 0 /\ Amount(anv, 3) = 1

\* C10, as claimed: following the parent index from any address never
\* revisits an address, and no UpdateANV trips the cycle-detection assertion.
C10_Acyclic == Acyclic(parentKey) /\ aborted # "assert_levels"

\* C3, as claimed: for every occupied slot i >= 1, the key kept at the
\* binary-heap parent position (i - 1) / 2 is <= the key kept at i.
C3_HeapInvariant ==
    \A i \in 1..(lotSize - 1) :
        (i \in DOMAIN lotVal /\ (i - 1) \div 2 \in DOMAIN lotVal) =>
            lotVal[(i - 1) \div 2].key <= lotVal[i].key

\* The C-th largest of the keys of seq (Len(seq) >= C).
CthLargest(seq, C) ==
    CHOOSE k \in {seq[i] : i \in DOMAIN seq} :
        /\ Cardinality({i \in DOMAIN seq : seq[i] > k}) < C
        /\ Cardinality({i \in DOMAIN seq : seq[i] >= k}) >= C

\* C4, as claimed: once more than C candidates with an ANV record have been
\* offered through AddAddressToLottery, the heap size is C, the minimum key
\* is the C-th largest offered key, and every offered key above it is in the
\* heap.
C4_OrderStatistic ==
    Len(offered) > MAX_RESERVOIR_SIZE =>
        /\ GetLotteryHeapSize(lotSize) = MAX_RESERVOIR_SIZE
        /\ GetLotteryMinKey(lotVal) = <<CthLargest(offered, MAX_RESERVOIR_SIZE)>>
        /\ \A i \in DOMAIN offered :
              offered[i] > CthLargest(offered, MAX_RESERVOIR_SIZE) =>
                  \E pos \in DOMAIN lotVal : lotVal[pos].key = offered[i]

\* C5, as claimed: AddAddressToLottery(seed, address), called when the
\* address has an ANV record and the heap holds fewer than C entries, leaves
\* the heap one entry larger, with (key, address) in some slot.
C5_AdmissionBelowCapacity ==
    [][\A u \in Seeds, a \in KeyIds :
          (/\ AddAddressToLottery(u, a)
           /\ GetANV(anv, a) # <<>>
           /\ GetLotteryHeapSize(lotSize) < MAX_RESERVOIR_SIZE)
          => /\ GetLotteryHeapSize(lotSize') = GetLotteryHeapSize(lotSize) + 1
             /\ \E pos \in DOMAIN lotVal' :
                   lotVal'[pos] = [key |-> WeightedKey(u, GetANV(anv, a)[1].amount),
                                   address |-> a]]_vars

\* r has no descendants in the indices `pre`: its address has no children,
\* is nobody's parent, and no stored referral names r as its inviter.
NoDescendants(pre, r) ==
    /\ GetChildren(pre.ch, r.pubKeyId) = <<>>
    /\ \A a \in Addresses : GetReferrer(pre.pk, a) # <<r.pubKeyId>>
    /\ \A h \in Hashes :
          GetReferral(pre.refs, h) # <<>> =>
              GetReferral(pre.refs, h)[1].previousReferral # r.codeHash

\* C6, as claimed: a successful RemoveReferral(r) that follows a successful
\* InsertReferral(r), r without descendants, leaves GetReferral, GetReferrer
\* and GetChildren as they were before the insert, whatever the store held
\* and whatever r is.
C6_RemovalInverse ==
    [][\A r \in Referrals :
          (/\ inserted # <<>>
           /\ inserted[1].referral = r
           /\ NoDescendants(inserted[1], r)
           /\ RemoveReferral(r, NoFail))
          => /\ \A h \in Hashes :
                   GetReferral(referrals', h) = GetReferral(inserted[1].refs, h)
             /\ \A a \in Addresses :
                   /\ GetReferrer(parentKey', a) = GetReferrer(inserted[1].pk, a)
                   /\ GetChildren(childrenOf', a) = GetChildren(inserted[1].ch, a)]_vars

\* C7: after a successful InsertReferral(r) whose previousReferral names a
\* stored referral p, GetReferrer(r.pubKeyId) is p.pubKeyId and r.pubKeyId
\* has been appended to GetChildren(p.pubKeyId); the chain root -> A -> B
\* inserted parent first has GetChildren(root) = [A], GetChildren(A) = [B].
C7_TreeIntegrity ==
    /\ [][\A r \in Referrals :
            (/\ InsertReferral(r, NoFail)
             /\ r.previousReferral \in Hashes
             /\ GetReferral(referrals', r.previousReferral) # <<>>)
            => LET p == GetReferral(referrals', r.previousReferral)[1]
               IN  /\ parentKey'[r.pubKeyId] = <<p.pubKeyId>>
                   /\ childrenOf'[p.pubKeyId] =
                         Append(childrenOf[p.pubKeyId], r.pubKeyId)]_vars
    /\ []((structCalls = 3 /\ referrals = ChainReferrals /\ ChainParents)
          => (childrenOf[1] = <<2>> /\ childrenOf[2] = <<3>>))

C7_Witness ==
    /\ structCalls = 3 /\ referrals = ChainReferrals /\ ChainParents
    /\ childrenOf[1] = <<2>> /\ childrenOf[2] = <<3>>
    /\ inserted # <<>> /\ inserted[1].referral.codeHash = 3

\* C8, as claimed: a successful InsertReferral(r) makes GetReferral(r.codeHash)
\* return r and ReferralCodeExists(r.codeHash) true and changes GetReferral
\* for no other code hash, and a stored referral stays as it is in every call
\* that is not a RemoveReferral of its code hash.
C8_RoundTrip ==
    [][/\ \A r \in Referrals :
             InsertReferral(r, NoFail) =>
                 /\ GetReferral(referrals', r.codeHash) = <<r>>
                 /\ ReferralCodeExists(referrals', r.codeHash)
                 /\ \A h \in Hashes \ {r.codeHash} :
                       GetReferral(referrals', h) = GetReferral(referrals, h)
       /\ \A h \in Hashes :
             (/\ GetReferral(referrals, h) # <<>>
              /\ ~\E r2 \in Referrals : r2.codeHash = h /\ RemoveReferral(r2, NoFail))
             => GetReferral(referrals', h) = GetReferral(referrals, h)]_vars

\* C11: InsertLotteryAddress called when GetLotteryHeapSize() >= C returns
\* false and changes neither the size counter nor any heap slot; and after
\* any sequence of InsertLotteryAddress and AddAddressToLottery calls
\* GetLotteryHeapSize() <= C.
C11_CapacityBound ==
    /\ [](GetLotteryHeapSize(lotSize) <= MAX_RESERVOIR_SIZE)
    /\ [][\A k \in Keys, a \in KeyIds :
            (/\ GetLotteryHeapSize(lotSize) >= MAX_RESERVOIR_SIZE
             /\ InsertLotteryAddress(k, a, NoFail))
            => (returned' = "false" /\ lotSize' = lotSize /\ lotVal' = lotVal)]_vars

\* The heap is full, candidates have been offered, and the call just made
\* was refused (an offer of a candidate with an ANV record returns true).
C11_Witness ==
    /\ GetLotteryHeapSize(lotSize) = MAX_RESERVOIR_SIZE
    /\ BagCardinality(accepted) = MAX_RESERVOIR_SIZE
    /\ offered # <<>>
    /\ returned = "false"

\* C12: once at least one InsertLotteryAddress has returned true,
\* GetLotteryMinKey() is present and is <= the key of every entry stored in
\* the heap; on the empty heap it is the empty optional.
C12_MinKey ==
    /\ GetLotteryHeapSize(lotSize) = 0 => GetLotteryMinKey(lotVal) = <<>>
    /\ BagCardinality(accepted) >= 1 =>
          /\ GetLotteryMinKey(lotVal) # <<>>
          /\ \A pos \in DOMAIN lotVal :
                GetLotteryMinKey(lotVal)[1] <= lotVal[pos].key

\* A full heap of entries with three different keys, the last insert accepted.
C12_Witness ==
    /\ BagCardinality(accepted) = MAX_RESERVOIR_SIZE
    /\ returned = "true"
    /\ GetLotteryMinKey(lotVal) # <<>>
    /\ \E p, q \in DOMAIN lotVal :
          GetLotteryMinKey(lotVal)[1] < lotVal[p].key /\ lotVal[p].key < lotVal[q].key

\* C13, as claimed: after a successful InsertReferral(r) whose
\* previousReferral names no stored referral, GetReferrer(r.pubKeyId) is the
\* empty optional.
C13_RootHasNoParentEntry ==
    [][\A r \in Referrals :
          (/\ InsertReferral(r, NoFail)
           /\ returned' = "true"
           /\ ~(/\ r.previousReferral \in Hashes
                /\ GetReferral(referrals', r.previousReferral) # <<>>))
          => GetReferrer(parentKey', r.pubKeyId) = <<>>]_vars

\* C14, as claimed: after any sequence of successful InsertReferral and
\* RemoveReferral calls, for all addresses a and p, a occurs in
\* GetChildren(p) if and only if GetReferrer(a) is p.
C14_IndexSync ==
    \A a, p \in Addresses :
        (\E i \in DOMAIN GetChildren(childrenOf, p) :
              GetChildren(childrenOf, p)[i] = a)
        <=> GetReferrer(parentKey, a) = <<p>>

\* address a occurs in the children list
Occurs(children, a) == \E i \in DOMAIN children : children[i] = a

\* C15: when two InsertReferral calls for distinct addresses with the same
\* inviter run with their store accesses interleaved and both have returned
\* true, both addresses have a parent entry naming the inviter and the
\* inviter's children list holds the address of the call that wrote it last;
\* it holds the other address only if one call read the list after the other
\* had written it (the state in which it is lost is C15_Witness).
C15_InterleavingLosesChildren ==
    \A p, q \in Callers :
        (/\ p # q
         /\ calls[p].pc = "done" /\ calls[q].pc = "done"
         /\ calls[p].parent_address = calls[q].parent_address)
        => LET inviter == calls[p].parent_address
               a == calls[p].referral[1].pubKeyId
               b == calls[q].referral[1].pubKeyId
               list == GetChildren(childrenOf, inviter)
           IN  /\ a # b
               /\ calls[p].ret = "true" /\ calls[q].ret = "true"
               /\ GetReferrer(parentKey, a) = <<inviter>>
               /\ GetReferrer(parentKey, b) = <<inviter>>
               /\ Occurs(list, a) \/ Occurs(list, b)
               /\ (Occurs(list, a) /\ Occurs(list, b))
                     <=> (Occurs(calls[p].children, b) \/ Occurs(calls[q].children, a))

\* Both calls have returned true, both parent entries name the stored
\* inviter, and its children list contains one of the two addresses only.
C15_Witness ==
    \E p, q \in Callers, inviter \in Inviters :
        /\ p # q
        /\ calls[p].pc = "done" /\ calls[p].ret = "true"
        /\ calls[q].pc = "done" /\ calls[q].ret = "true"
        /\ WalletIdExists(parentKey, inviter)
        /\ GetReferrer(parentKey, p) = <<inviter>>
        /\ GetReferrer(parentKey, q) = <<inviter>>
        /\ Occurs(GetChildren(childrenOf, inviter), q)
        /\ ~Occurs(GetChildren(childrenOf, inviter), p)

\* C17: InsertReferral writes the referral record, the parent entry and the
\* inviter's children list in that order; when its k-th write fails it
\* returns false, the writes before the k-th stay in the store and the k-th
\* and later ones are not performed.
C17_InsertPartialFailure ==
    [][\A r \in Referrals, k \in 1..InsertWrites :
          InsertReferral(r, k) =>
              /\ returned' = "false"
              /\ referrals' = IF k > 1 THEN [referrals EXCEPT ![r.codeHash] = <<r>>]
                              ELSE referrals
              /\ parentKey' =
                    IF k > 2
                    THEN [parentKey EXCEPT ![r.pubKeyId] =
                             <<ResolveParent(referrals', r.previousReferral)>>]
                    ELSE parentKey
              /\ childrenOf' = childrenOf]_vars

\* The children-list write of an insert under a stored inviter has failed:
\* the record and the parent entry are there, the address is in no list.
C17_Witness ==
    \E r \in Referrals, inviter \in KeyIds :
        /\ returned = "false"
        /\ inviter # r.pubKeyId
        /\ GetReferral(referrals, r.codeHash) = <<r>>
        /\ GetReferrer(parentKey, r.pubKeyId) = <<inviter>>
        /\ \A a \in Addresses : ~Occurs(GetChildren(childrenOf, a), r.pubKeyId)

\* The addresses UpdateANV visits from a, in order, when the walk ends.
RECURSIVE PathFrom(_, _)
PathFrom(pk, a) ==
    IF GetReferrer(pk, a) = <<>> THEN <<a>>
    ELSE <<a>> \o PathFrom(pk, GetReferrer(pk, a)[1])

\* C16: when the write of UpdateANV fails at the k-th address of the path
\* from the start address upward (a path that ends), UpdateANV returns false
\* at once: the k-1 addresses before it hold the added change, and the k-th
\* address, the addresses above it and all others are as before the call.
C16_UpdatePartialFailure ==
    [][\A t \in AddressTypes, a \in KeyIds, v \in Credits, k \in 1..Cardinality(Addresses) :
          (/\ credited' = [credited EXCEPT ![a] = @ + v]
           /\ aborted' = "none"
           /\ ~Revisits(parentKey, a, {})
           /\ k <= Len(PathFrom(parentKey, a))
           /\ UpdateANV(t, a, v, k))
          => LET path == PathFrom(parentKey, a)
             IN  /\ returned' = "false"
                 /\ \A i \in 1..(k - 1) :
                       /\ anv'[path[i]] # <<>>
                       /\ Amount(anv', path[i]) = Amount(anv, path[i]) + v
                 /\ \A i \in k..Len(path) : anv'[path[i]] = anv[path[i]]
                 /\ \A x \in Addresses :
                       (\A i \in 1..Len(path) : path[i] # x) => anv'[x] = anv[x]]_vars

\* On the chain root -> A -> B, an update started at B has failed at the
\* root: B and A hold the change, the root and Address{} have no record.
C16_Witness ==
    /\ ChainParents /\ returned = "false" /\ credited[3] = 1
    /\ Amount(anv, 3) = 1 /\ Amount(anv, 2) = 1
    /\ anv[1] = <<>> /\ anv[NullAddress] = <<>>

\* C18: a successful UpdateANV(addressType, start, change) sets the type and
\* origin of start's record to (addressType, start), and for every strict
\* ancestor of start changes the amount only: the type and origin stored for
\* it (the defaults, if it had no record) are as before the call.
C18_Stamping ==
    [][\A t \in StampTypes, a \in KeyIds, v \in Changes :
          (/\ credited' = [credited EXCEPT ![a] = @ + v]
           /\ returned' = "true"
           /\ UpdateANV(t, a, v, NoFail))
          => /\ GetANV(anv', a) # <<>>
             /\ GetANV(anv', a)[1].type = t
             /\ GetANV(anv', a)[1].origin = a
             /\ \A x \in ChainFrom(parentKey, a, {}) \ {a} :
                   /\ GetANV(anv', x) # <<>>
                   /\ GetANV(anv', x)[1].type = ReadANV(anv, x).type
                   /\ GetANV(anv', x)[1].origin = ReadANV(anv, x).origin
                   /\ GetANV(anv', x)[1].amount = ReadANV(anv, x).amount + v]_vars

\* On the chain, B was just stamped with type 2 by its own update, above it
\* A keeps the type 3 and origin A of an earlier update of its own, and the
\* root keeps the defaults.
C18_Witness ==
    /\ ChainParents /\ returned = "true"
    /\ anv[3] = <<[type |-> 2, origin |-> 3, amount |-> 1]>>
    /\ anv[2] = <<[type |-> 3, origin |-> 2, amount |-> 2]>>
    /\ anv[1] = <<[type |-> 0, origin |-> NullAddress, amount |-> 2]>>

\* C19: an address that has an ANV record and has never been the start
\* address of an UpdateANV holds the default type 0 and the empty origin;
\* GetAllANVs reports its record with that empty origin and
\* GetAllRewardableANVs does not return it, whatever its amount.
C19_PropagatedNotRewardable ==
    \A x \in Addresses :
        (GetANV(anv, x) # <<>> /\ x \notin started) =>
            /\ GetANV(anv, x)[1].type = 0
            /\ GetANV(anv, x)[1].origin = NullAddress
            /\ Occurs(GetAllANVs(anv), GetANV(anv, x)[1])
            /\ ~Occurs(GetAllRewardableANVs(anv), GetANV(anv, x)[1])
            /\ \A i \in DOMAIN GetAllRewardableANVs(anv) :
                  GetAllRewardableANVs(anv)[i].origin # NullAddress

\* The root of the chain holds an amount credited from below and was never
\* a start address, while its invitee is rewardable.
C19_Witness ==
    /\ ChainParents /\ 1 \notin started /\ 2 \in started
    /\ Amount(anv, 1) = MaxAmount
    /\ GetANV(anv, 1)[1].origin = NullAddress
    /\ Len(GetAllANVs(anv)) = Cardinality(Addresses)
    /\ Len(GetAllRewardableANVs(anv)) < Len(GetAllANVs(anv))
    /\ \E i \in DOMAIN GetAllRewardableANVs(anv) :
          GetAllRewardableANVs(anv)[i].origin = 2

\* The bag of the entries kept in the slots of lv.
BagOfSlots(lv) ==
    [entry \in {lv[pos] : pos \in DOMAIN lv} |->
        Cardinality({pos \in DOMAIN lv : lv[pos] = entry})]

\* C20: after any sequence of InsertLotteryAddress calls whose reads and
\* writes all succeed, GetLotteryHeapSize() is the number of calls that
\* returned true, the occupied slots are exactly 0..size-1, and the bag of
\* the (key, address) entries in them is the bag of the entries passed to the
\* calls that returned true.
C20_ContentsPreserved ==
    /\ GetLotteryHeapSize(lotSize) = BagCardinality(accepted)
    /\ DOMAIN lotVal = 0..(GetLotteryHeapSize(lotSize) - 1)
    /\ BagOfSlots(lotVal) = accepted

\* A full heap, the last insert accepted, with keys ascending along the sift
\* path of slot 4 (slots 0, 1, 4) and one entry held twice.
C20_Witness ==
    /\ GetLotteryHeapSize(lotSize) = MAX_RESERVOIR_SIZE
    /\ returned = "true"
    /\ \E entry \in DOMAIN accepted : accepted[entry] = 2
    /\ lotVal[0].key < lotVal[1].key
    /\ lotVal[1].key < lotVal[4].key
    /\ lotVal[0].address # lotVal[1].address
====
